---- MODULE Spec2Model ----
(***************************************************************************)
(* page-tracker-cli, `download` command (src/src/main.rs).                 *)
(*                                                                         *)
(* One run of main: parse the options, list the KV keys, push one fetch    *)
(* future per key into a FuturesUnordered, await them all, sort the        *)
(* outcomes by Option<path>, resolve the destination, create the CSV       *)
(* writer, serialize every record, flush.                                  *)
(*                                                                         *)
(* Strings are sequences of byte values, compared as Rust compares String  *)
(* (bytewise lexicographic).  The remote service and the command line are  *)
(* the environment: their answers are fixed in the initial state.  The     *)
(* file system's answers are chosen when the call is made.                 *)
(***************************************************************************)
EXTENDS Integers, Sequences, FiniteSets, TLC

\* ------------------------------------------------------------- bounds
\* Longest key list the listing call returns in the model.
MaxKeys == 2

\* Key names the namespace may hold: "a", "a/b", "c".
KeyNames == { <<97>>, <<97, 47, 98>>, <<99>> }

\* View counts the service may answer with.
ViewValues == { 3, 10 }

\* Paths given on the command line, and the wall clock's answers.
OutPath == <<111>>
OutDir == <<100>>
Clock == { 1, 2 }

\* Longest key, in characters, whose request path is checked.
MaxKeyChars == 2

\* Characters of such keys, as UTF-8: a z A Z 0 9, the neighbours of the
\* alphanumeric ranges / : @ [ ` {, space, % and + , and e-acute.
EncodeChars ==
    { <<97>>, <<122>>, <<65>>, <<90>>, <<48>>, <<57>>,
      <<47>>, <<58>>, <<64>>, <<91>>, <<96>>, <<123>>,
      <<32>>, <<37>>, <<43>>, <<195, 169>> }

\* ------------------------------------------------------------- state
VARIABLES
    opts,        \* parsed command line: [output, output_dir], each "none"/"some"
    listing,     \* the service's answer to the listing request
    resp,        \* the service's answer to the i-th fetch
    pc,          \* position of main
    status,      \* "running", "usage", "ok", "error", "panic"
    error,       \* the error main returned
    keys,        \* Vec<String> returned by list_keys
    futs,        \* view_futures: state of each pushed future
    listCalls,   \* listing requests sent
    fetchCalls,  \* fetch requests sent, per future
    reqPath,     \* key segment of the request path, per future
    data,        \* outcomes, in completion order, then sorted
    order,       \* futures in the order they completed (history)
    next,        \* position of the write loop in data
    dest,        \* output_path
    fileExists,  \* the destination file exists
    file,        \* rows on disk at the destination
    wtr,         \* csv::Writer: [open, header, buf]
    ioTrace,     \* answers the file system gave, in order
    prev         \* observable result of an earlier run with the same inputs

vars == << opts, listing, resp, pc, status, error, keys, futs, listCalls,
           fetchCalls, reqPath, data, order, next, dest, fileExists, file, wtr,
           ioTrace, prev >>

envVars == << opts, listing, resp >>

\* ------------------------------------------------------------- values
NoError == [kind |-> "none", src |-> 0]
IOError == [kind |-> "io", src |-> 0]

ErrorOf(kind, i) == [kind |-> kind, src |-> i]

\* Result<(String, usize)> of one fetch future; fut is the future it came from.
OkOutcome(i, key, view) ==
    [fut |-> i, ok |-> TRUE, key |-> key, view |-> view, err |-> NoError]
ErrOutcome(i, kind) ==
    [fut |-> i, ok |-> FALSE, key |-> <<>>, view |-> 0, err |-> ErrorOf(kind, i)]

NoDest == [form |-> "none", path |-> <<>>, time |-> 0]
ClosedWriter == [open |-> FALSE, header |-> FALSE, buf |-> <<>>]

NoRun == [ran |-> FALSE, status |-> "running", file |-> <<>>, io |-> <<>>,
          order |-> <<>>]

\* ------------------------------------------------------ pure functions
\* String's Ord: bytewise lexicographic, a proper prefix is smaller.
RECURSIVE StrLess(_, _)
StrLess(a, b) ==
    IF b = <<>> THEN FALSE
    ELSE IF a = <<>> THEN TRUE
    ELSE IF Head(a) < Head(b) THEN TRUE
    ELSE IF Head(a) > Head(b) THEN FALSE
    ELSE StrLess(Tail(a), Tail(b))

\* Err outcomes given a key that sorts behind every path.
SortKeyErrLast(res) == IF res.ok THEN <<1, res.key>> ELSE <<2, <<>>>>

\* The closure given to sort_by_key: Some(path) for Ok, None for Err.
SortKey(res) == IF res.ok THEN <<1, res.key>> ELSE <<0, <<>>>>

\* The comparison turned around.
KeyLessReversed(x, y) ==
    \/ y[1] < x[1]
    \/ x[1] = 1 /\ y[1] = 1 /\ StrLess(y[2], x[2])

\* Option<String>'s Ord: None < Some(_), Some compares the strings.
KeyLess(x, y) ==
    \/ x[1] < y[1]
    \/ x[1] = 1 /\ y[1] = 1 /\ StrLess(x[2], y[2])

\* Insertion of x in front of the elements with an equal key: not stable.
RECURSIVE InsertBeforeEquals(_, _)
InsertBeforeEquals(x, s) ==
    IF s = <<>> THEN <<x>>
    ELSE IF ~KeyLess(SortKey(Head(s)), SortKey(x)) THEN <<x>> \o s
    ELSE <<Head(s)>> \o InsertBeforeEquals(x, Tail(s))

\* Stable insertion of x behind every element whose key is not greater.
RECURSIVE Insert(_, _)
Insert(x, s) ==
    IF s = <<>> THEN <<x>>
    ELSE IF KeyLess(SortKey(x), SortKey(Head(s))) THEN <<x>> \o s
    ELSE <<Head(s)>> \o Insert(x, Tail(s))

RECURSIVE SortFrom(_, _)
SortFrom(s, acc) ==
    IF s = <<>> THEN acc ELSE SortFrom(Tail(s), Insert(Head(s), acc))

\* The sort left out: outcomes stay in completion order.
SortByKeyOmitted(s) == s

\* data.sort_by_key(..): a stable sort.
SortByKey(s) == SortFrom(s, <<>>)

\* Decimal digits of a usize, as bytes.
RECURSIVE ToDigits(_)
ToDigits(n) ==
    IF n < 10 THEN <<48 + n>> ELSE ToDigits(n \div 10) \o <<48 + (n % 10)>>

\* The header row derived from CsvRecord's field names: path,views.
HeaderRow == << <<112, 97, 116, 104>>, <<118, 105, 101, 119, 115>> >>

\* The row a CsvRecord serializes to.
RecordRow(path, views) == << path, ToDigits(views) >>

\* What Writer::serialize puts in the buffer: the header before the first record.
Serialized(w, path, views) ==
    IF w.header THEN <<RecordRow(path, views)>>
    ELSE <<HeaderRow, RecordRow(path, views)>>

\* The bytes NON_ALPHANUMERIC leaves alone: 0-9, A-Z, a-z.
IsAlnum(b) == b \in (48..57) \cup (65..90) \cup (97..122)

\* An upper-case hexadecimal digit, as a byte.
HexDigit(n) == IF n < 10 THEN 48 + n ELSE 55 + n

\* A space written as '+', as form encoding does.
EncodeByteFormStyle(b) ==
    IF IsAlnum(b) THEN <<b>>
    ELSE IF b = 32 THEN <<43>>
    ELSE <<37, HexDigit(b \div 16), HexDigit(b % 16)>>

\* One byte of the key: itself, or %XX.
EncodeByte(b) ==
    IF IsAlnum(b) THEN <<b>>
    ELSE <<37, HexDigit(b \div 16), HexDigit(b % 16)>>

\* utf8_percent_encode(key, NON_ALPHANUMERIC), byte by byte over the UTF-8.
RECURSIVE PercentEncode(_)
PercentEncode(s) ==
    IF s = <<>> THEN <<>> ELSE EncodeByte(Head(s)) \o PercentEncode(Tail(s))

\* The value of a hexadecimal digit, -1 for any other byte.
HexValue(b) ==
    IF b \in 48..57 THEN b - 48
    ELSE IF b \in 65..70 THEN b - 55
    ELSE IF b \in 97..102 THEN b - 87
    ELSE -1

\* URL-decoding of a path segment, as the service does it: %XX becomes the
\* byte, every other byte stands for itself.
RECURSIVE PercentDecode(_)
PercentDecode(s) ==
    IF s = <<>> THEN <<>>
    ELSE IF /\ Head(s) = 37
            /\ Len(s) >= 3
            /\ HexValue(s[2]) >= 0
            /\ HexValue(s[3]) >= 0
         THEN <<16 * HexValue(s[2]) + HexValue(s[3])>>
                  \o PercentDecode(SubSeq(s, 4, Len(s)))
         ELSE <<Head(s)>> \o PercentDecode(Tail(s))

\* --------------------------------------------------------------- Init
KeyLists == UNION { [1..n -> KeyNames] : n \in 0..MaxKeys }

ListingAnswers ==
    { [ok |-> TRUE, keys |-> ks, err |-> "none"] : ks \in KeyLists }
    \cup { [ok |-> FALSE, keys |-> <<>>, err |-> e] : e \in {"transport", "decode"} }

FetchAnswers ==
    { [ok |-> TRUE, view |-> v, err |-> "none"] : v \in ViewValues }
    \cup { [ok |-> FALSE, view |-> 0, err |-> e] : e \in {"transport", "decode"} }

OptChoices == [output : {"none", "some"}, output_dir : {"none", "some"}]

\* main has not started.
Start ==
    /\ pc = "args"
    /\ status = "running"
    /\ error = NoError
    /\ keys = <<>>
    /\ futs = <<>>
    /\ listCalls = 0
    /\ fetchCalls = <<>>
    /\ reqPath = <<>>
    /\ data = <<>>
    /\ order = <<>>
    /\ next = 1
    /\ dest = NoDest
    /\ fileExists = FALSE
    /\ file = <<>>
    /\ wtr = ClosedWriter
    /\ ioTrace = <<>>
    /\ prev = NoRun

Init ==
    /\ opts \in OptChoices
    /\ listing \in ListingAnswers
    /\ resp \in [1..Len(listing.keys) -> FetchAnswers]
    /\ Start

\* ------------------------------------------------------------ actions
\* main returns (or the process ends) with the given status and error.
Exit(st, err) ==
    /\ pc' = "exit"
    /\ status' = st
    /\ error' = err

\* Opt::from_args: --output conflicts with --output-dir; neither is required.
ParseArgs ==
    /\ pc = "args"
    /\ IF opts.output = "some" /\ opts.output_dir = "some"
       THEN /\ pc' = "exit"
            /\ status' = "usage"
       ELSE /\ pc' = "list"
            /\ UNCHANGED status
    /\ UNCHANGED << envVars, error, keys, futs, listCalls, fetchCalls, reqPath, data, order,
                    next, dest, fileExists, file, wtr, ioTrace, prev >>

\* A failed listing taken for an empty one.
ListKeysFailsAsEmpty ==
    /\ pc = "list"
    /\ ~listing.ok
    /\ listCalls' = listCalls + 1
    /\ keys' = <<>>
    /\ pc' = "push"
    /\ UNCHANGED << envVars, status, error, futs, fetchCalls, reqPath, data, order, next,
                    dest, fileExists, file, wtr, ioTrace, prev >>

\* let keys = list_keys(..).fuse().await?;
ListKeysFails ==
    /\ pc = "list"
    /\ ~listing.ok
    /\ listCalls' = listCalls + 1
    /\ Exit("error", ErrorOf(listing.err, 0))
    /\ UNCHANGED << envVars, keys, futs, fetchCalls, reqPath, data, order, next, dest,
                    fileExists, file, wtr, ioTrace, prev >>

ListKeysOk ==
    /\ pc = "list"
    /\ listing.ok
    /\ listCalls' = listCalls + 1
    /\ keys' = listing.keys
    /\ pc' = "push"
    /\ UNCHANGED << envVars, status, error, futs, fetchCalls, reqPath, data, order, next,
                    dest, fileExists, file, wtr, ioTrace, prev >>

\* The loop stops one key short.
PushFuturesDropsLast ==
    /\ pc = "push"
    /\ futs' = [i \in 1..(Len(keys) - 1) |-> "new"]
    /\ fetchCalls' = [i \in 1..(Len(keys) - 1) |-> 0]
    /\ pc' = "collect"
    /\ UNCHANGED << envVars, reqPath, status, error, keys, listCalls, data, order, next,
                    dest, fileExists, file, wtr, ioTrace, prev >>

\* for key in keys { view_futures.push(async move { .. }) }
PushFutures ==
    /\ pc = "push"
    /\ futs' = [i \in 1..Len(keys) |-> "new"]
    /\ fetchCalls' = [i \in 1..Len(keys) |-> 0]
    /\ pc' = "collect"
    /\ UNCHANGED << envVars, reqPath, status, error, keys, listCalls, data, order, next,
                    dest, fileExists, file, wtr, ioTrace, prev >>

\* First poll of collect: FuturesUnordered polls every pushed future once,
\* and each runs get_key_value up to its pending send: all requests go out.
StartFetches ==
    /\ pc = "collect"
    /\ futs # <<>>
    /\ \A i \in DOMAIN futs : futs[i] = "new"
    /\ futs' = [i \in DOMAIN futs |-> "inflight"]
    /\ fetchCalls' = [i \in DOMAIN fetchCalls |-> fetchCalls[i] + 1]
    /\ reqPath' = [i \in DOMAIN futs |-> PercentEncode(keys[i])]
    /\ UNCHANGED << envVars, pc, status, error, keys, listCalls, data, order,
                    next, dest, fileExists, file, wtr, ioTrace, prev >>

\* The outcome future i resolves to: Ok((key, view)) or the error of `?`.
Outcome(i) ==
    IF resp[i].ok THEN OkOutcome(i, keys[i], resp[i].view)
    ELSE ErrOutcome(i, resp[i].err)

\* Future i completes; collect appends its outcome in completion order.
CompleteFetch(i) ==
    /\ pc = "collect"
    /\ futs[i] = "inflight"
    /\ futs' = [futs EXCEPT ![i] = "done"]
    /\ data' = Append(data, Outcome(i))
    /\ order' = Append(order, i)
    /\ UNCHANGED << envVars, pc, status, error, keys, listCalls, fetchCalls, reqPath,
                    next, dest, fileExists, file, wtr, ioTrace, prev >>

\* The join returning at the first Err outcome, as try_collect would, with
\* the futures still in flight dropped.
JoinOnFirstErr ==
    /\ pc = "collect"
    /\ \/ \A i \in DOMAIN futs : futs[i] = "done"
       \/ \E j \in DOMAIN data : ~data[j].ok
    /\ data' = SortByKey(data)
    /\ pc' = "resolve"
    /\ UNCHANGED << envVars, order, status, error, keys, futs, listCalls,
                    fetchCalls, reqPath, next, dest, fileExists, file, wtr,
                    ioTrace, prev >>

\* The join waiting for a completion even when no future was pushed.
JoinNeedsCompletion ==
    /\ pc = "collect"
    /\ futs # <<>>
    /\ \A i \in DOMAIN futs : futs[i] = "done"
    /\ data' = SortByKey(data)
    /\ pc' = "resolve"
    /\ UNCHANGED << envVars, order, status, error, keys, futs, listCalls,
                    fetchCalls, reqPath, next, dest, fileExists, file, wtr,
                    ioTrace, prev >>

\* collect::<Vec<_>>().await returns once the stream is exhausted; then
\* data.sort_by_key(..).
JoinAndSort ==
    /\ pc = "collect"
    /\ \A i \in DOMAIN futs : futs[i] = "done"
    /\ data' = SortByKey(data)
    /\ pc' = "resolve"
    /\ UNCHANGED << envVars, order, status, error, keys, futs, listCalls, fetchCalls, reqPath,
                    next, dest, fileExists, file, wtr, ioTrace, prev >>

\* let output_path = if let Some(path) = output { .. } else if let Some(dir)
\* = output_dir { dir.join(now.format(..)) } else { unreachable!() };
ResolveOutput ==
    /\ pc = "resolve"
    /\ opts.output = "some"
    /\ dest' = [form |-> "file", path |-> OutPath, time |-> 0]
    /\ pc' = "create"
    /\ UNCHANGED << envVars, status, error, keys, futs, listCalls, fetchCalls, reqPath,
                    data, order, next, fileExists, file, wtr, ioTrace, prev >>

ResolveOutputDir ==
    /\ pc = "resolve"
    /\ opts.output = "none"
    /\ opts.output_dir = "some"
    /\ \E now \in Clock : dest' = [form |-> "dir", path |-> OutDir, time |-> now]
    /\ pc' = "create"
    /\ UNCHANGED << envVars, status, error, keys, futs, listCalls, fetchCalls, reqPath,
                    data, order, next, fileExists, file, wtr, ioTrace, prev >>

ResolveUnreachable ==
    /\ pc = "resolve"
    /\ opts.output = "none"
    /\ opts.output_dir = "none"
    /\ Exit("panic", NoError)
    /\ UNCHANGED << envVars, keys, futs, listCalls, fetchCalls, reqPath, data, order, next,
                    dest, fileExists, file, wtr, ioTrace, prev >>

\* The answers the file system may give to the call being made.  A second
\* run is answered as the first run was, wherever it makes the same call.
FsAnswers(allowed) ==
    IF /\ prev.ran
       /\ Len(ioTrace) < Len(prev.io)
       /\ prev.io[Len(ioTrace) + 1] \in allowed
    THEN { prev.io[Len(ioTrace) + 1] }
    ELSE allowed

\* let mut wtr = Writer::from_path(&output_path)?;  File::create truncates.
CreateOk ==
    /\ pc = "create"
    /\ "ok" \in FsAnswers({"ok", "fail"})
    /\ fileExists' = TRUE
    /\ file' = <<>>
    /\ wtr' = [open |-> TRUE, header |-> FALSE, buf |-> <<>>]
    /\ ioTrace' = Append(ioTrace, "ok")
    /\ pc' = "write"
    /\ UNCHANGED << envVars, status, error, keys, futs, listCalls, fetchCalls, reqPath,
                    data, order, next, dest, prev >>

CreateFails ==
    /\ pc = "create"
    /\ "fail" \in FsAnswers({"ok", "fail"})
    /\ ioTrace' = Append(ioTrace, "fail")
    /\ Exit("error", IOError)
    /\ UNCHANGED << envVars, keys, futs, listCalls, fetchCalls, reqPath, data, order,
                    next, dest, fileExists, file, wtr, prev >>

\* An Err outcome skipped instead of returned.
WriteSkipsErr ==
    /\ pc = "write"
    /\ next <= Len(data)
    /\ ~data[next].ok
    /\ next' = next + 1
    /\ UNCHANGED << envVars, pc, status, error, keys, futs, listCalls,
                    fetchCalls, reqPath, data, order, dest, fileExists, file, wtr,
                    ioTrace, prev >>

\* let (path, views) = view_res?;  on an Err outcome main returns it, and the
\* writer goes out of scope.
WriteHitsErr ==
    /\ pc = "write"
    /\ next <= Len(data)
    /\ ~data[next].ok
    /\ error' = data[next].err
    /\ pc' = "drop"
    /\ UNCHANGED << envVars, status, keys, futs, listCalls, fetchCalls, reqPath, data,
                    order, next, dest, fileExists, file, wtr, ioTrace, prev >>

\* wtr.serialize(CsvRecord { path, views })?;  the row stays in the writer's
\* buffer.
SerializeBuffered ==
    /\ pc = "write"
    /\ next <= Len(data)
    /\ data[next].ok
    /\ "buffered" \in FsAnswers({"buffered", "ok", "fail"})
    /\ wtr' = [wtr EXCEPT !.header = TRUE,
                          !.buf = @ \o Serialized(wtr, data[next].key, data[next].view)]
    /\ ioTrace' = Append(ioTrace, "buffered")
    /\ next' = next + 1
    /\ UNCHANGED << envVars, pc, status, error, keys, futs, listCalls,
                    fetchCalls, reqPath, data, order, dest, fileExists, file, prev >>

\* The buffer is full: what it holds is written through to the file, and the
\* row starts a new buffer.
SerializeSpills ==
    /\ pc = "write"
    /\ next <= Len(data)
    /\ data[next].ok
    /\ "ok" \in FsAnswers({"buffered", "ok", "fail"})
    /\ file' = file \o wtr.buf
    /\ wtr' = [wtr EXCEPT !.header = TRUE,
                          !.buf = Serialized(wtr, data[next].key, data[next].view)]
    /\ ioTrace' = Append(ioTrace, "ok")
    /\ next' = next + 1
    /\ UNCHANGED << envVars, pc, status, error, keys, futs, listCalls,
                    fetchCalls, reqPath, data, order, dest, fileExists, prev >>

\* The write-through fails: serialize returns the io error, `?` returns it.
\* What the buffer held stays in it.
SerializeFails ==
    /\ pc = "write"
    /\ next <= Len(data)
    /\ data[next].ok
    /\ "fail" \in FsAnswers({"buffered", "ok", "fail"})
    /\ ioTrace' = Append(ioTrace, "fail")
    /\ error' = IOError
    /\ pc' = "drop"
    /\ UNCHANGED << envVars, status, keys, futs, listCalls, fetchCalls, reqPath, data,
                    order, next, dest, fileExists, file, wtr, prev >>

\* wtr.flush()?; then Ok(()): the writer is dropped with an empty buffer.
FlushOk ==
    /\ pc = "write"
    /\ next > Len(data)
    /\ "ok" \in FsAnswers({"ok", "fail"})
    /\ ioTrace' = Append(ioTrace, "ok")
    /\ file' = file \o wtr.buf
    /\ wtr' = ClosedWriter
    /\ Exit("ok", NoError)
    /\ UNCHANGED << envVars, keys, futs, listCalls, fetchCalls, reqPath, data, order,
                    next, dest, fileExists, prev >>

\* The result of flush ignored.
FlushFailsIgnored ==
    /\ pc = "write"
    /\ next > Len(data)
    /\ "fail" \in FsAnswers({"ok", "fail"})
    /\ ioTrace' = Append(ioTrace, "fail")
    /\ wtr' = ClosedWriter
    /\ Exit("ok", NoError)
    /\ UNCHANGED << envVars, keys, futs, listCalls, fetchCalls, reqPath, data, order,
                    next, dest, fileExists, file, prev >>

FlushFails ==
    /\ pc = "write"
    /\ next > Len(data)
    /\ "fail" \in FsAnswers({"ok", "fail"})
    /\ ioTrace' = Append(ioTrace, "fail")
    /\ error' = IOError
    /\ pc' = "drop"
    /\ UNCHANGED << envVars, status, keys, futs, listCalls, fetchCalls, reqPath, data,
                    order, next, dest, fileExists, file, wtr, prev >>

\* main returns an error while the writer is open: csv::Writer's Drop flushes
\* the buffer and ignores the result.
DropWriter ==
    /\ pc = "drop"
    /\ \E a \in FsAnswers({"ok", "fail"}) :
         /\ file' = IF a = "ok" THEN file \o wtr.buf ELSE file
         /\ ioTrace' = Append(ioTrace, a)
    /\ wtr' = ClosedWriter
    /\ Exit("error", error)
    /\ UNCHANGED << envVars, keys, futs, listCalls, fetchCalls, reqPath, data, order,
                    next, dest, fileExists, prev >>

Next ==
    \/ ParseArgs
    \/ ListKeysFails
    \/ ListKeysOk
    \/ PushFutures
    \/ StartFetches
    \/ \E i \in DOMAIN futs : CompleteFetch(i)
    \/ JoinAndSort
    \/ ResolveOutput
    \/ ResolveOutputDir
    \/ ResolveUnreachable
    \/ CreateOk
    \/ CreateFails
    \/ WriteHitsErr
    \/ SerializeBuffered
    \/ SerializeSpills
    \/ SerializeFails
    \/ FlushOk
    \/ FlushFails
    \/ DropWriter

Spec == Init /\ [][Next]_vars

\* The runtime keeps running main, and the service answers every request
\* sent: a step that can be taken is taken.
SpecLive == Init /\ [][Next]_vars /\ WF_vars(Next)

\* ------------------------------------------------- two runs, same inputs
\* The program is started a second time with the same command line, against
\* the same answers of the service and an empty destination; what the first
\* run left behind is kept in prev.
Rerun ==
    /\ pc = "exit"
    /\ ~prev.ran
    /\ prev' = [ran |-> TRUE, status |-> status, file |-> file,
                io |-> ioTrace, order |-> order]
    /\ pc' = "args"
    /\ status' = "running"
    /\ error' = NoError
    /\ keys' = <<>>
    /\ futs' = <<>>
    /\ listCalls' = 0
    /\ fetchCalls' = <<>>
    /\ reqPath' = <<>>
    /\ data' = <<>>
    /\ order' = <<>>
    /\ next' = 1
    /\ dest' = NoDest
    /\ fileExists' = FALSE
    /\ file' = <<>>
    /\ wtr' = ClosedWriter
    /\ ioTrace' = <<>>
    /\ UNCHANGED envVars

NextPair ==
    \/ Next
    \/ Rerun

\* The service answers every fetch of the same key alike.
PerKeyAnswers ==
    \A i, j \in DOMAIN resp : listing.keys[i] = listing.keys[j] => resp[i] = resp[j]

InitPair == Init /\ PerKeyAnswers

SpecPair == InitPair /\ [][NextPair]_vars

\* ------------------------------------------------------------- claims
Done == pc = "exit"

\* Some collected outcome of get_key_value is an error.
FetchFailed == \E j \in DOMAIN data : ~data[j].ok

\* collect has returned.
Joined == pc \notin {"args", "list", "push", "collect"}

\* The record rows among rows (the header left out), and a row's path.
WrittenRecords(rows) == SelectSeq(rows, LAMBDA r : r # HeaderRow)

KeysDistinct == \A i, j \in DOMAIN keys : i # j => keys[i] # keys[j]

Bijections(n) == { p \in [1..n -> 1..n] : \A i, j \in 1..n : i # j => p[i] # p[j] }

\* C1: if any per-key fetch fails, the run never creates the destination
\* file.  (The code creates it before the write loop meets the error.)
C1_NoFileWhenFetchFails == FetchFailed => ~fileExists

\* C2: if at least one per-key fetch fails, the run never ends in success:
\* it ends with an error (or aborts), whatever the keys, the completion order
\* and the number of sibling fetches that succeeded.
C2_FetchFailureFailsRun ==
    FetchFailed => /\ status # "ok"
                   /\ Done => status \in {"error", "panic"}

C2_Witness ==
    /\ Done
    /\ FetchFailed
    /\ status = "error"
    /\ error.kind \in {"transport", "decode"}
    /\ \E j \in DOMAIN data : data[j].ok

\* C3: the listing call is issued at most once, every future sends at most
\* one request, and once the await-all has returned there is exactly one
\* future, one request and one collected outcome per listed key.
C3_OneFetchOneOutcomePerKey ==
    /\ listCalls <= 1
    /\ \A i \in DOMAIN fetchCalls : fetchCalls[i] <= 1
    /\ Len(data) <= Len(keys)
    /\ Joined =>
         /\ Len(data) = Len(keys)
         /\ DOMAIN futs = 1..Len(keys)
         /\ \A i \in 1..Len(keys) :
              /\ fetchCalls[i] = 1
              /\ Cardinality({ j \in DOMAIN data : data[j].fut = i }) = 1

C3_Witness ==
    /\ pc = "resolve"
    /\ Len(keys) >= 2
    /\ keys[1] = keys[2]
    /\ FetchFailed
    /\ \E j \in DOMAIN data : data[j].ok

\* C4 as stated: the written records are strictly ascending by path, for
\* every key list the listing call can return.
C4_StrictlyAscending ==
    LET r == WrittenRecords(file \o wtr.buf)
    IN  \A i, j \in DOMAIN r : i < j => StrLess(r[i][1], r[j][1])

\* C4 amended: the written records are ascending by path (never descending),
\* and strictly ascending whenever the listed keys are pairwise distinct.
C4_AscendingStrictIfDistinct ==
    LET r == WrittenRecords(file \o wtr.buf)
    IN  \A i, j \in DOMAIN r :
          i < j => /\ ~StrLess(r[j][1], r[i][1])
                   /\ KeysDistinct => StrLess(r[i][1], r[j][1])

C4_Witness ==
    /\ Done
    /\ status = "ok"
    /\ Len(WrittenRecords(file)) >= 2
    /\ StrLess(keys[2], keys[1])
    /\ order[1] = 1

\* C5: two runs with the same key list, the same answer per key and the same
\* file-system answers, whatever the order in which their fetches complete,
\* leave the same rows at the destination and end with the same verdict.
C5_SameOutputAnyCompletionOrder ==
    (prev.ran /\ Done /\ PerKeyAnswers /\ prev.io = ioTrace)
        => /\ prev.file = file
           /\ prev.status = status

C5_Witness ==
    /\ prev.ran
    /\ Done
    /\ prev.io = ioTrace
    /\ prev.order # order
    /\ status = "ok"
    /\ Len(WrittenRecords(file)) >= 2

\* C6: when the listing call returns no key and the run succeeds, the output
\* file holds the header row path,views and nothing else.
C6_EmptyListingHeaderOnly ==
    (Done /\ status = "ok" /\ keys = <<>>) => file = <<HeaderRow>>

\* C7: when the listing and every fetch succeed and the run succeeds, the
\* file is the header row followed by one row per listed key, each pairing
\* the key with the value fetched for it, in ascending key order.
C7_HeaderThenOneRowPerKey ==
    (Done /\ status = "ok") =>
        /\ Len(file) = Len(keys) + 1
        /\ file[1] = HeaderRow
        /\ \E p \in Bijections(Len(keys)) :
             \A j \in 1..Len(keys) :
                file[j + 1] = RecordRow(keys[p[j]], resp[p[j]].view)
        /\ \A i, j \in 2..Len(file) : i < j => ~StrLess(file[j][1], file[i][1])

\* C8: once the listing call has failed, the run has ended with that error,
\* no fetch future exists, no request was sent, no destination was resolved
\* and no file created; and fetch futures exist only after the listing call
\* has succeeded.
C8_ListingFailureAbortsFirst ==
    /\ (listCalls > 0 /\ ~listing.ok) =>
          /\ Done
          /\ status = "error"
          /\ error = ErrorOf(listing.err, 0)
          /\ futs = <<>>
          /\ fetchCalls = <<>>
          /\ data = <<>>
          /\ dest = NoDest
          /\ ~fileExists
          /\ ioTrace = <<>>
    /\ futs # <<>> => /\ listCalls = 1
                      /\ listing.ok
                      /\ keys = listing.keys

C8_Witness ==
    /\ Done
    /\ ~listing.ok
    /\ listCalls = 1
    /\ status = "error"

\* C9: whenever the run reaches destination resolution exactly one of
\* --output and --output-dir was supplied, and unreachable!() is never run.
C9_UnreachableNeverReached ==
    /\ pc = "resolve" => (opts.output = "some") # (opts.output_dir = "some")
    /\ status # "panic"

\* C10: the run reports success only after the file was created, every
\* record serialized and the flush answered ok, with every record on disk
\* and nothing left in the buffer; a failed create, write or flush ends the
\* run with an error.
C10_SuccessOnlyAfterFlush ==
    /\ status = "ok" =>
          /\ Done
          /\ fileExists
          /\ ioTrace # <<>>
          /\ \A k \in DOMAIN ioTrace : ioTrace[k] # "fail"
          /\ ioTrace[Len(ioTrace)] = "ok"
          /\ wtr.buf = <<>>
          /\ next = Len(data) + 1
          /\ WrittenRecords(file) =
                [j \in 1..Len(data) |-> RecordRow(data[j].key, data[j].view)]
    /\ (\E k \in DOMAIN ioTrace : ioTrace[k] = "fail") =>
          /\ status # "ok"
          /\ Done => status = "error"

C10_Witness ==
    /\ status = "ok"
    /\ Len(WrittenRecords(file)) >= 2
    /\ ioTrace[2] = "buffered"

\* --------------------------------------------- request paths of any key
\* Keys of up to n characters.
RECURSIVE KeysOfChars(_)
KeysOfChars(n) ==
    IF n = 0 THEN { <<>> }
    ELSE LET shorter == KeysOfChars(n - 1)
         IN  shorter \cup { k \o c : k \in shorter, c \in EncodeChars }

\* The listing names one key, of any of the characters above.
InitEncode ==
    /\ opts \in OptChoices
    /\ listing \in
         { [ok |-> TRUE, keys |-> <<k>>, err |-> "none"] : k \in KeysOfChars(MaxKeyChars) }
         \cup { [ok |-> FALSE, keys |-> <<>>, err |-> e] : e \in {"transport", "decode"} }
    /\ resp \in [1..Len(listing.keys) -> FetchAnswers]
    /\ Start

SpecEncode == InitEncode /\ [][Next]_vars

\* The path segment is made of alphanumeric bytes and of escapes %XX with
\* upper-case hexadecimal digits.
RECURSIVE WellEscaped(_)
WellEscaped(s) ==
    IF s = <<>> THEN TRUE
    ELSE IF IsAlnum(Head(s)) THEN WellEscaped(Tail(s))
    ELSE /\ Head(s) = 37
         /\ Len(s) >= 3
         /\ s[2] \in (48..57) \cup (65..70)
         /\ s[3] \in (48..57) \cup (65..70)
         /\ WellEscaped(SubSeq(s, 4, Len(s)))

\* The number of bytes of s outside [A-Za-z0-9].
RECURSIVE NonAlnumCount(_)
NonAlnumCount(s) ==
    IF s = <<>> THEN 0
    ELSE (IF IsAlnum(Head(s)) THEN 0 ELSE 1) + NonAlnumCount(Tail(s))

\* C11: the key segment of every request path has every byte of the key
\* outside [A-Za-z0-9] escaped as %XX (so it is three bytes per such byte
\* and one per other byte), and URL-decoding it gives back the key.
C11_EncodeRoundTrip ==
    \A i \in DOMAIN reqPath :
        /\ WellEscaped(reqPath[i])
        /\ Len(reqPath[i]) = Len(keys[i]) + 2 * NonAlnumCount(keys[i])
        /\ PercentDecode(reqPath[i]) = keys[i]

C11_Witness ==
    /\ DOMAIN reqPath = {1}
    /\ keys[1] = <<37, 195, 169>>
    /\ reqPath[1] = <<37, 50, 53, 37, 67, 51, 37, 65, 57>>

\* ------------------------------------------------- claims about the join
\* The futures whose outcome is an error, and the first of them to complete.
FailedFuts == { i \in DOMAIN resp : ~resp[i].ok }

FirstFailed ==
    order[CHOOSE j \in DOMAIN order :
            /\ order[j] \in FailedFuts
            /\ \A k \in 1..(j - 1) : order[k] \notin FailedFuts]

SeveralFailed == Cardinality({ j \in DOMAIN data : ~data[j].ok }) >= 2

\* C12: a future in flight stays in flight, with its completion pending,
\* whatever its siblings' outcomes; until the join nothing is sorted, no
\* destination resolved and no file opened; and the join is passed only
\* with every future complete.
C12_AllCompleteBeforeJoin ==
    /\ \A i \in DOMAIN futs :
          futs[i] = "inflight" => pc = "collect" /\ ENABLED CompleteFetch(i)
    /\ pc = "collect" =>
          /\ data = [j \in DOMAIN order |-> Outcome(order[j])]
          /\ dest = NoDest
          /\ ~fileExists
          /\ ioTrace = <<>>
    /\ Joined => \A i \in DOMAIN futs : futs[i] = "done"

C12_Witness ==
    /\ pc = "resolve"
    /\ Len(order) >= 2
    /\ ~resp[order[1]].ok
    /\ resp[order[2]].ok
    /\ \A i \in DOMAIN futs : futs[i] = "done"

C14_NoRecordRowWhenFetchFails ==
    FetchFailed =>
        /\ next = 1
        /\ file = <<>>
        /\ wtr.buf = <<>>
        /\ Joined => \A i, j \in DOMAIN data :
                        (i < j /\ ~data[j].ok) => ~data[i].ok

C14_Witness ==
    /\ Done
    /\ status = "error"
    /\ fileExists
    /\ Len(order) >= 2
    /\ resp[order[1]].ok
    /\ ~resp[order[2]].ok

\* C15: with the runtime running main and every request answered, every run
\* ends: in success, in a reported error, or in one of the two aborts
\* (usage error, panic), for any number of keys.
C15_Terminates ==
    <>(Done /\ status \in {"ok", "error", "panic", "usage"})

C15_Witness ==
    /\ Done
    /\ status = "ok"
    /\ keys = <<>>
    /\ listCalls = 1

====
